---- MODULE Spec2Model ----
(***************************************************************************)
(* SUVIClient of sunpy/net/dataretriever/sources/goes.py: search() and     *)
(* post_search_hook() as a state machine.  One search is one pass through  *)
(* the three nested loops of search(); every pass of the innermost loop    *)
(* body (branch selection, URL binding, directory scrape, normalisation of *)
(* every match) is one action.                                             *)
(*                                                                         *)
(* Text is modelled by what the code does with it: a number formatted into *)
(* a URL is a sequence of decimal digits, and parsing reads the digits     *)
(* back.  Physical quantities are exact rationals <<numerator, denom>>.    *)
(***************************************************************************)
EXTENDS Integers, Sequences, FiniteSets

(***************************************************************************)
(* Bounds of the model.                                                    *)
(***************************************************************************)
MaxFiles == 2       \* entries present in the remote archive
MaxLevels == 2      \* levels requested by one query

(***************************************************************************)
(* Decimal text.                                                           *)
(***************************************************************************)
\* str(x) for 0 <= x <= 99
Str(n) == IF n < 10 THEN <<n>> ELSE <<n \div 10, n % 10>>

\* '{:03}'.format(n) for 0 <= n <= 999
Format03(n) == <<(n \div 100) % 10, (n \div 10) % 10, n % 10>>

RECURSIVE ParseInt(_)
\* the integer a digit string denotes
ParseInt(ds) ==
    IF ds = <<>> THEN 0
    ELSE 10 * ParseInt(SubSeq(ds, 1, Len(ds) - 1)) + ds[Len(ds)]

(***************************************************************************)
(* Wavelength quantities and ranges.                                       *)
(***************************************************************************)
\* quantity.to(u.Angstrom, equivalencies=u.spectral()) as an exact rational
ToAngstrom(q) ==
    CASE q.unit = "Angstrom" -> <<q.value, 1>>
      [] q.unit = "nm"       -> <<10 * q.value, 1>>
      [] q.unit = "eV"       -> <<12398, q.value>>

\* r1 <= r2 for rationals with positive denominators
RatLeq(r1, r2) == r1[1] * r2[2] <= r2[1] * r1[2]

\* a.Wavelength(wmin, wmax): the smaller bound becomes min, the larger max
Wavelength(w1, w2) ==
    IF RatLeq(w1, w2) THEN [min |-> w1, max |-> w2] ELSE [min |-> w2, max |-> w1]

\* wave in req_wave, for a wavelength in angstrom
Contains(range, wave) ==
    RatLeq(range.min, <<wave, 1>>) /\ RatLeq(<<wave, 1>>, range.max)

\* supported_waves, in angstrom
supported_waves == <<94, 131, 171, 195, 284, 304>>

\* matchdict.get('Wavelength', None) found no key
NoWavelength == [absent |-> "Wavelength"]

\* faulty variant of AllWaves: the ends of the range are left out
AllWavesExclusive(req_wave) ==
    IF req_wave # NoWavelength
    THEN LET wmin == ToAngstrom(req_wave.min)
             wmax == ToAngstrom(req_wave.max)
             req  == Wavelength(wmin, wmax)
         IN  SelectSeq(supported_waves, LAMBDA wave :
                 Contains(req, wave) /\ <<wave, 1>> # req.min /\ <<wave, 1>> # req.max)
    ELSE supported_waves

\* faulty variant of AllWaves: the converted bounds are used in the order given
AllWavesUnsorted(req_wave) ==
    IF req_wave # NoWavelength
    THEN LET wmin == ToAngstrom(req_wave.min)
             wmax == ToAngstrom(req_wave.max)
             req  == [min |-> wmin, max |-> wmax]
         IN  SelectSeq(supported_waves, LAMBDA wave : Contains(req, wave))
    ELSE supported_waves

\* lines 128-137 of search: the wavelengths the loops run over
AllWaves(req_wave) ==
    IF req_wave # NoWavelength
    THEN LET wmin == ToAngstrom(req_wave.min)
             wmax == ToAngstrom(req_wave.max)
             req  == Wavelength(wmin, wmax)
         IN  SelectSeq(supported_waves, LAMBDA wave : Contains(req, wave))
    ELSE supported_waves

(***************************************************************************)
(* Calendar: the days the model knows, in ascending order.                 *)
(***************************************************************************)
Calendar ==
    << [year |-> 2019, month |-> 12, day |-> 31],
       [year |-> 2020, month |-> 1,  day |-> 1] >>

\* date comparison key
DayStamp(d) == (d.year * 13 + d.month) * 32 + d.day

\* a <= b for datetimes
NotAfter(a, b) ==
    LET sa == (a.hour * 60 + a.minute) * 60 + a.second
        sb == (b.hour * 60 + b.minute) * 60 + b.second
    IN  \/ DayStamp(a) < DayStamp(b)
        \/ DayStamp(a) = DayStamp(b) /\ sa <= sb

\* datetime(year, month, day, hour, minute, second)
datetime(year, month, day, hour, minute, second) ==
    [year |-> year, month |-> month, day |-> day,
     hour |-> hour, minute |-> minute, second |-> second]

(***************************************************************************)
(* URL skeletons and filename grammars of SUVIClient.                      *)
(* A URL is a record of its variable segments:                             *)
(*   .../goes/goes<goes>/l<dirlevel>/[data/]<product><elem><wave>/<date>/  *)
(*   <file><filelevel><filewave><filesat>_s<s>_e<e>_...<ext>               *)
(***************************************************************************)
\* baseurl1b.format(**formdict): the file name is 'OR_SUVI-L1b.*\.fits.gz'
baseurl1b(formdict) ==
    [goes     |-> formdict.SatelliteNumber,
     dirlevel |-> "1b",
     product  |-> "suvi-l1b-",
     elem     |-> formdict.elem,
     wave     |-> Format03(formdict.wave),
     file     |-> "OR_SUVI-L1b",
     ext      |-> "fits.gz"]

\* faulty variant of baseurl2: the file name is left open, as in baseurl1b
baseurl2AnyFile(formdict) ==
    [goes      |-> formdict.SatelliteNumber,
     dirlevel  |-> "2",
     product   |-> "suvi-l2-ci",
     elem      |-> "",
     wave      |-> Format03(formdict.wave),
     file      |-> "dr_suvi-l",
     ext       |-> "fits"]

\* baseurl2.format(**formdict): wave and SatelliteNumber recur in the file name
baseurl2(formdict) ==
    [goes      |-> formdict.SatelliteNumber,
     dirlevel  |-> "2",
     product   |-> "suvi-l2-ci",
     elem      |-> "",
     wave      |-> Format03(formdict.wave),
     file      |-> "dr_suvi-l",
     filelevel |-> "2",
     filewave  |-> Format03(formdict.wave),
     filesat   |-> formdict.SatelliteNumber,
     ext       |-> "fits"]

\* parse() returned None
NoMatch == [absent |-> "match"]

\* parse(pattern1b, url): SatelliteNumber, Level and Wavelength come from the
\* directory part, the date from the %Y/%m/%d directories, the two times from
\* the file name; the dates inside the file name are skipped ({:7d})
pattern1b(url) ==
    IF /\ url.product = "suvi-l1b-"
       /\ url.file = "OR_SUVI-L1b"
       /\ Len(url.goes) = 2
       /\ Len(url.wave) = 3
    THEN [SatelliteNumber |-> ParseInt(url.goes),
          Level      |-> url.dirlevel,
          Wavelength |-> ParseInt(url.wave),
          year   |-> url.date.year,
          month  |-> url.date.month,
          day    |-> url.date.day,
          hour   |-> url.s.hour,
          minute |-> url.s.minute,
          second |-> url.s.second,
          ehour   |-> url.e.hour,
          eminute |-> url.e.minute,
          esecond |-> url.e.second]
    ELSE NoMatch

\* parse(pattern2, url): everything but the first SatelliteNumber comes from
\* the file name; SatelliteNumber is named twice and both must agree
pattern2(url) ==
    IF /\ url.file = "dr_suvi-l"
       /\ Len(url.goes) = 2
       /\ url.filesat = url.goes
       /\ Len(url.filewave) = 3
    THEN [SatelliteNumber |-> ParseInt(url.goes),
          Level      |-> url.filelevel,
          Wavelength |-> ParseInt(url.filewave),
          year   |-> url.s.year,
          month  |-> url.s.month,
          day    |-> url.s.day,
          hour   |-> url.s.hour,
          minute |-> url.s.minute,
          second |-> url.s.second,
          eyear   |-> url.e.year,
          emonth  |-> url.e.month,
          eday    |-> url.e.day,
          ehour   |-> url.e.hour,
          eminute |-> url.e.minute,
          esecond |-> url.e.second]
    ELSE NoMatch

\* the grammar named by search's variable `pattern`, applied to a URL
Extract(pattern, url) ==
    IF pattern = "pattern1b" THEN pattern1b(url) ELSE pattern2(url)

(***************************************************************************)
(* The remote archive: the entries that may exist, in listing order.       *)
(***************************************************************************)
Clock(date, hour, minute, second) ==
    datetime(date.year, date.month, date.day, hour, minute, second)

\* .../goes<sat>/l1b/suvi-l1b-<elem><wave>/<date>/OR_SUVI-L1b-..._s.._e.._c...fits.gz
File1b(sat, elem, wave, date, s, e) ==
    [goes |-> Str(sat), dirlevel |-> "1b", product |-> "suvi-l1b-", elem |-> elem,
     wave |-> Format03(wave), date |-> date, file |-> "OR_SUVI-L1b",
     filelevel |-> "1b", filewave |-> Format03(wave), filesat |-> Str(sat),
     s |-> s, e |-> e, ext |-> "fits.gz"]

\* .../goes<sat>/l2/data/suvi-l2-ci<wave>/<date>/dr_suvi-l2-ci<fwave>_g<sat>_s.._e.._v1-0-0.fits
File2(sat, wave, fwave, date, s, e) ==
    [goes |-> Str(sat), dirlevel |-> "2", product |-> "suvi-l2-ci", elem |-> "",
     wave |-> Format03(wave), date |-> date, file |-> "dr_suvi-l",
     filelevel |-> "2", filewave |-> Format03(fwave), filesat |-> Str(sat),
     s |-> s, e |-> e, ext |-> "fits"]

Archive ==
    << \* a later day listed before an earlier one of the same product
       File1b(16, "fe", 171, Calendar[2], Clock(Calendar[2], 0, 0, 9), Clock(Calendar[2], 0, 0, 10)),
       File1b(16, "fe", 171, Calendar[1], Clock(Calendar[1], 12, 30, 9), Clock(Calendar[1], 12, 30, 10)),
       File1b(16, "he", 304, Calendar[2], Clock(Calendar[2], 6, 0, 0), Clock(Calendar[2], 6, 0, 1)),
       \* an exposure that ends after midnight
       File1b(17, "fe", 94, Calendar[1], Clock(Calendar[1], 23, 59, 59), Clock(Calendar[2], 0, 0, 0)),
       \* a four-minute composite that ends at the next midnight
       File2(16, 195, 195, Calendar[1], Clock(Calendar[1], 23, 56, 0), Clock(Calendar[2], 0, 0, 0)),
       \* a 284 file lying in the 195 directory
       File2(16, 195, 284, Calendar[1], Clock(Calendar[1], 1, 0, 0), Clock(Calendar[1], 1, 4, 0)) >>

VARIABLES
    remote,       \* the entries of Archive that exist (indices)
    down,         \* the calendar units whose directory listing fails (indices)
    pc,           \* "idle", "loop", "done" (search returned) or "raised"
    matchdict,    \* the match dictionary of the running search
    all_waves, all_satnos, all_levels, metalist,   \* locals of search
    si, li, wi,   \* positions of the three nested loops (1-based)
    response,     \* what search returned
    scraped,      \* history: the scrapes run, in order
    origin,       \* history: for every element of metalist, where it came from
    failed,       \* history: the calendar units that failed to list
    prev          \* history: the previous search of this client

vars == <<remote, down, pc, matchdict, all_waves, all_satnos, all_levels,
          metalist, si, li, wi, response, scraped, origin, failed, prev>>

(***************************************************************************)
(* Scraper(urlpattern)._extract_files_meta(timerange, extractor)           *)
(***************************************************************************)
\* the calendar units of the time range, both ends included
Units(timerange) ==
    { u \in 1..Len(Calendar) :
        /\ DayStamp(timerange.start) <= DayStamp(Calendar[u])
        /\ DayStamp(Calendar[u]) <= DayStamp(timerange.end) }

\* the entry lies in the unit's directory and its name follows the bound URL
FollowsPattern(url, urlpattern, u) ==
    /\ url.date = Calendar[u]
    /\ \A k \in DOMAIN urlpattern : url[k] = urlpattern[k]

\* the entries of one unit's listing that the grammar accepts, in listing order
UnitHits(urlpattern, u, extractor) ==
    LET idx == [f \in 1..Len(Archive) |-> [unit |-> u, entry |-> f]]
    IN  SelectSeq(idx, LAMBDA h :
            /\ h.entry \in remote
            /\ FollowsPattern(Archive[h.entry], urlpattern, u)
            /\ Extract(extractor, Archive[h.entry]) # NoMatch)

RECURSIVE Hits(_, _, _, _)
\* unit after unit in calendar order; a unit that fails to list is passed over
Hits(urlpattern, timerange, extractor, u) ==
    IF u > Len(Calendar) THEN <<>>
    ELSE (IF u \in Units(timerange) /\ u \notin down
          THEN UnitHits(urlpattern, u, extractor) ELSE <<>>)
         \o Hits(urlpattern, timerange, extractor, u + 1)

\* the field maps of the matches, and the units that failed
extract_files_meta(urlpattern, timerange, extractor) ==
    LET hits == Hits(urlpattern, timerange, extractor, 1)
    IN  [matches |-> [k \in 1..Len(hits) |-> Extract(extractor, Archive[hits[k].entry])],
         hits    |-> hits,
         failed_units |-> Units(timerange) \cap down]

(***************************************************************************)
(* SUVIClient.post_search_hook                                             *)
(***************************************************************************)
\* TimeRange(start, end)
TimeRange(start, end) == [start |-> start, end |-> end]

\* t.strftime(TIME_FORMAT): the fields of t in the order the text shows them
strftime(t) == <<t.year, t.month, t.day, t.hour, t.minute, t.second>>

\* faulty variant of post_search_hook: end is built from the start fields
post_search_hookEndIsStart(i, md) ==
    LET start == datetime(i.year, i.month, i.day, i.hour, i.minute, i.second)
        end   == datetime(i.year, i.month, i.day, i.hour, i.minute, i.second)
    IN  [Time            |-> TimeRange(start, end),
         StartTime       |-> strftime(start),
         EndTime         |-> strftime(end),
         Instrument      |-> md.Instrument[1],
         Phsyobs         |-> md.Physobs[1],
         Source          |-> md.Source[1],
         Provider        |-> md.Provider[1],
         SatelliteNumber |-> i.SatelliteNumber,
         Level           |-> i.Level,
         Wavelength      |-> [value |-> i.Wavelength, unit |-> "Angstrom"]]

post_search_hook(i, md) ==
    LET start == datetime(i.year, i.month, i.day, i.hour, i.minute, i.second)
        end   == datetime(i.year, i.month, i.day, i.ehour, i.eminute, i.esecond)
    IN  [Time            |-> TimeRange(start, end),
         StartTime       |-> strftime(start),
         EndTime         |-> strftime(end),
         Instrument      |-> md.Instrument[1],
         Phsyobs         |-> md.Physobs[1],
         Source          |-> md.Source[1],
         Provider        |-> md.Provider[1],
         SatelliteNumber |-> i.SatelliteNumber,
         Level           |-> i.Level,
         Wavelength      |-> [value |-> i.Wavelength, unit |-> "Angstrom"]]

(***************************************************************************)
(* The queries: what pre_search_hook hands to search.                      *)
(***************************************************************************)
\* goes_number of register_values
goes_number == <<16, 17>>

\* the level tags a caller may ask for; "3" is not a SUVI level
LevelValues == {"1b", "2", "3"}

NoDuplicates(seq) == \A a, b \in 1..Len(seq) : a # b => seq[a] # seq[b]

SeqsUpTo(S, n) == UNION { [1..m -> S] : m \in 1..n }

LevelSeqs == { l \in SeqsUpTo(LevelValues, MaxLevels) : NoDuplicates(l) }

SatSeqs ==
    { <<Str(goes_number[1])>>,
      <<Str(goes_number[1]), Str(goes_number[2])>>,
      <<Str(goes_number[2]), Str(goes_number[1])>> }

Q(value, unit) == [value |-> value, unit |-> unit]

\* a.Wavelength(min, max) as the caller gave it, min <= max in its own unit
WaveRanges ==
    { [min |-> Q(94, "Angstrom"),  max |-> Q(304, "Angstrom")],
      [min |-> Q(41, "eV"),        max |-> Q(131, "eV")],
      [min |-> Q(17, "nm"),        max |-> Q(29, "nm")],
      [min |-> Q(305, "Angstrom"), max |-> Q(400, "Angstrom")] }

TimeRanges ==
    { TimeRange(Calendar[1], Calendar[1]), TimeRange(Calendar[1], Calendar[2]) }

MatchDicts ==
    [Time            : TimeRanges,
     SatelliteNumber : SatSeqs,
     Level           : LevelSeqs,
     Wavelength      : WaveRanges \cup {NoWavelength},
     Instrument      : {<<"suvi">>},
     Physobs         : {<<"flux">>},
     Source          : {<<"GOES">>},
     Provider        : {<<"NOAA">>}]

\* the archives and outages the model starts from
Remotes == { r \in SUBSET (1..Len(Archive)) : Cardinality(r) <= MaxFiles }

Outages == { {}, {1} }

(***************************************************************************)
(* SUVIClient.search                                                       *)
(***************************************************************************)
NoQuery == [absent |-> "matchdict"]
NoResponse == [absent |-> "response"]
NoPrev == [absent |-> "prev"]
ValueError == [raised |-> "ValueError"]

\* QueryResponse(metalist, client=self)
QueryResponse(list) == [records |-> list]

\* faulty variant of Bind: the element code is 'he' from 284 on
BindHeFrom284(satno, level, wave) ==
    IF level = "1b"
    THEN [urlpattern |-> baseurl1b([wave |-> wave, SatelliteNumber |-> satno,
                                    elem |-> IF wave >= 284 THEN "he" ELSE "fe"]),
          pattern    |-> "pattern1b"]
    ELSE IF level = "2"
    THEN [urlpattern |-> baseurl2([wave |-> wave, SatelliteNumber |-> satno]),
          pattern    |-> "pattern2"]
    ELSE ValueError

\* lines 146-159: the bound URL and the grammar of one combination
Bind(satno, level, wave) ==
    IF level = "1b"
    THEN [urlpattern |-> baseurl1b([wave |-> wave, SatelliteNumber |-> satno,
                                    elem |-> IF wave = 304 THEN "he" ELSE "fe"]),
          pattern    |-> "pattern1b"]
    ELSE IF level = "2"
    THEN [urlpattern |-> baseurl2([wave |-> wave, SatelliteNumber |-> satno]),
          pattern    |-> "pattern2"]
    ELSE ValueError

\* the three for statements have a combination left to run
LoopActive ==
    /\ si <= Len(all_satnos)
    /\ li <= Len(all_levels)
    /\ wi <= Len(all_waves)

\* faulty variant of Advance: the level loop is left after its first level
AdvanceSkipsLevels(s, l, w) ==
    IF w < Len(all_waves) THEN <<s, l, w + 1>>
    ELSE <<s + 1, 1, 1>>

\* faulty variant of Advance: the satellite loop is the innermost one
AdvanceSatelliteInnermost(s, l, w) ==
    IF s < Len(all_satnos) THEN <<s + 1, l, w>>
    ELSE IF l < Len(all_levels) THEN <<1, l + 1, w>>
    ELSE <<1, 1, w + 1>>

\* the loop positions after one pass of the innermost body
Advance(s, l, w) ==
    IF w < Len(all_waves) THEN <<s, l, w + 1>>
    ELSE IF l < Len(all_levels) THEN <<s, l + 1, 1>>
    ELSE <<s + 1, 1, 1>>

\* lines 125-140: search up to the first for statement
Enter(md) ==
    /\ matchdict' = md
    /\ all_waves' = AllWaves(md.Wavelength)
    /\ all_satnos' = md.SatelliteNumber
    /\ all_levels' = md.Level
    /\ metalist' = <<>>
    /\ si' = 1 /\ li' = 1 /\ wi' = 1
    /\ response' = NoResponse
    /\ scraped' = <<>>
    /\ origin' = <<>>
    /\ failed' = {}
    /\ pc' = "loop"

\* the client's first search
Search ==
    /\ pc = "idle"
    /\ \E md \in MatchDicts : Enter(md)
    /\ UNCHANGED <<remote, down, prev>>

\* the range, in angstrom, holds every supported wavelength
Covers(range) ==
    LET req == Wavelength(ToAngstrom(range.min), ToAngstrom(range.max))
    IN  \A k \in 1..Len(supported_waves) : Contains(req, supported_waves[k])

\* the same query again, now asking for all supported wavelengths by a range
SearchAgain ==
    /\ pc \in {"done", "raised"}
    /\ prev = NoPrev
    /\ matchdict.Wavelength = NoWavelength
    /\ prev' = [matchdict |-> matchdict, pc |-> pc, response |-> response,
                scraped |-> scraped]
    /\ \E w \in { r \in WaveRanges : Covers(r) } : Enter([matchdict EXCEPT !.Wavelength = w])
    /\ UNCHANGED <<remote, down>>

\* lines 146-165: one pass of the innermost loop body
LoopBody ==
    /\ pc = "loop"
    /\ LoopActive
    /\ LET satno == all_satnos[si]
           level == all_levels[li]
           wave  == all_waves[wi]
           bound == Bind(satno, level, wave)
       IN  /\ bound # ValueError
           /\ LET got == extract_files_meta(bound.urlpattern, matchdict.Time, bound.pattern)
                  filesmeta == got.matches
              IN  /\ metalist' = metalist \o
                        [k \in 1..Len(filesmeta) |-> post_search_hook(filesmeta[k], matchdict)]
                  /\ origin' = origin \o
                        [k \in 1..Len(filesmeta) |->
                            [si |-> si, li |-> li, wi |-> wi,
                             satno |-> satno, level |-> level, wave |-> wave,
                             unit |-> got.hits[k].unit, entry |-> got.hits[k].entry,
                             k |-> k, raw |-> filesmeta[k]]]
                  /\ scraped' = Append(scraped,
                        [satno |-> satno, level |-> level, wave |-> wave,
                         urlpattern |-> bound.urlpattern, pattern |-> bound.pattern,
                         matches |-> Len(filesmeta)])
                  /\ failed' = failed \cup got.failed_units
    /\ LET next == Advance(si, li, wi)
       IN  si' = next[1] /\ li' = next[2] /\ wi' = next[3]
    /\ UNCHANGED <<remote, down, pc, matchdict, all_waves, all_satnos, all_levels,
                   response, prev>>

\* line 157: raise ValueError(f"Level {level} is not supported.")
UnsupportedLevel ==
    /\ pc = "loop"
    /\ LoopActive
    /\ Bind(all_satnos[si], all_levels[li], all_waves[wi]) = ValueError
    /\ pc' = "raised"
    /\ UNCHANGED <<remote, down, matchdict, all_waves, all_satnos, all_levels,
                   metalist, si, li, wi, response, scraped, origin, failed, prev>>

\* line 167: return QueryResponse(metalist, client=self)
Return ==
    /\ pc = "loop"
    /\ ~LoopActive
    /\ response' = QueryResponse(metalist)
    /\ pc' = "done"
    /\ UNCHANGED <<remote, down, matchdict, all_waves, all_satnos, all_levels,
                   metalist, si, li, wi, scraped, origin, failed, prev>>

Init ==
    /\ remote \in Remotes
    /\ down \in Outages
    /\ pc = "idle"
    /\ matchdict = NoQuery
    /\ all_waves = <<>> /\ all_satnos = <<>> /\ all_levels = <<>>
    /\ metalist = <<>>
    /\ si = 1 /\ li = 1 /\ wi = 1
    /\ response = NoResponse
    /\ scraped = <<>>
    /\ origin = <<>>
    /\ failed = {}
    /\ prev = NoPrev

Next == Search \/ SearchAgain \/ LoopBody \/ UnsupportedLevel \/ Return

Spec == Init /\ [][Next]_vars

(***************************************************************************)
(* Properties.                                                             *)
(***************************************************************************)
Supported(level) == level \in {"1b", "2"}

AllSupported == \A k \in 1..Len(all_levels) : Supported(all_levels[k])

Terminated == pc \in {"done", "raised"}

\* the failed units a response tells its caller about
Indicated(r) == IF "failed_units" \in DOMAIN r THEN r.failed_units ELSE {}

\* C1: a search whose levels contain a value other than '1b' and '2' never
\* returns: it ends with the unsupported-level error, whatever the satellites
\* and the wavelength selection are.
C1_UnsupportedLevelFails ==
    pc = "done" => \A k \in 1..Len(matchdict.Level) : Supported(matchdict.Level[k])

\* the records one combination contributes, computed from the archive
ComboRecords(c) ==
    LET got == extract_files_meta(c.urlpattern, matchdict.Time, c.pattern).matches
    IN  [k \in 1..Len(got) |-> post_search_hook(got[k], matchdict)]

RECURSIVE Flatten(_)
Flatten(log) ==
    IF log = <<>> THEN <<>> ELSE ComboRecords(Head(log)) \o Flatten(Tail(log))

RECURSIVE SumMatches(_)
SumMatches(log) ==
    IF log = <<>> THEN 0 ELSE Head(log).matches + SumMatches(Tail(log))

Combo(c) == <<c.satno, c.level, c.wave>>

Range(seq) == { seq[k] : k \in 1..Len(seq) }

\* C2: when all levels are supported and search returns, the scrapes run are
\* the Cartesian product satellites x levels x wavelengths, each combination
\* once, and the returned records are the per-combination match lists laid end
\* to end: their number is the sum of the numbers of matches.
C2_FanOut ==
    (pc = "done" /\ AllSupported) =>
        /\ { Combo(scraped[k]) : k \in 1..Len(scraped) } =
               Range(all_satnos) \X Range(all_levels) \X Range(all_waves)
        /\ \A a, b \in 1..Len(scraped) : a # b => Combo(scraped[a]) # Combo(scraped[b])
        /\ Len(response.records) = SumMatches(scraped)
        /\ response.records = Flatten(scraped)

C2_Witness ==
    /\ pc = "done" /\ AllSupported
    /\ Len(all_satnos) = 2 /\ Len(all_levels) = 2 /\ Len(all_waves) >= 3
    /\ Len(response.records) = 2
    /\ \E a, b \in 1..Len(scraped) :
            a # b /\ scraped[a].matches = 1 /\ scraped[b].matches = 0

\* C3: when some calendar units fail to list while others give matches, search
\* returns the records of the units that listed together with the failed units.
C3_PartialFailureIndicated ==
    (pc = "done" /\ failed # {} /\ response.records # <<>>) =>
        Indicated(response) = failed

\* C4: a search without wavelength constraint and the same search with a range
\* holding all six supported wavelengths end the same way, run the same scrapes
\* and return the same records.
C4_WavelengthDefault ==
    (Terminated /\ prev # NoPrev) =>
        /\ prev.matchdict = [matchdict EXCEPT !.Wavelength = NoWavelength]
        /\ Covers(matchdict.Wavelength)
        /\ prev.pc = pc
        /\ prev.scraped = scraped
        /\ prev.response = response

C4_Witness ==
    /\ pc = "done" /\ prev # NoPrev
    /\ matchdict.Wavelength.min = Q(94, "Angstrom")
    /\ matchdict.Wavelength.max = Q(304, "Angstrom")
    /\ Len(scraped) >= 6
    /\ Len(response.records) >= 1

\* C5: every returned record carries the satellite number, the level and the
\* wavelength (in angstrom) of the combination whose scrape produced it.
C5_AxisTagging ==
    pc = "done" =>
        /\ Len(origin) = Len(response.records)
        /\ \A p \in 1..Len(response.records) :
            /\ response.records[p].SatelliteNumber = ParseInt(origin[p].satno)
            /\ response.records[p].Level = origin[p].level
            /\ response.records[p].Wavelength = [value |-> origin[p].wave, unit |-> "Angstrom"]

C5_Witness ==
    /\ pc = "done"
    /\ \E p, q \in 1..Len(response.records) :
        /\ origin[p].level = "1b" /\ origin[p].wave = 171 /\ origin[p].satno = Str(16)
        /\ origin[q].level = "2" /\ origin[q].wave = 195

\* C6: a record is built from one raw match: start is the matched year, month
\* and day with hour, minute and second; end is the same year, month and day
\* with ehour, eminute and esecond; instrument, physical observable, source and
\* provider are the first values of the match dictionary.
C6_Normalization ==
    /\ Len(metalist) = Len(origin)
    /\ Len(metalist) = SumMatches(scraped)
    /\ \A p \in 1..Len(metalist) :
        LET i == Extract(IF origin[p].level = "1b" THEN "pattern1b" ELSE "pattern2",
                         Archive[origin[p].entry])
            r == metalist[p]
        IN  /\ r.Time.start = [year |-> i.year, month |-> i.month, day |-> i.day,
                               hour |-> i.hour, minute |-> i.minute, second |-> i.second]
            /\ r.Time.end = [year |-> i.year, month |-> i.month, day |-> i.day,
                             hour |-> i.ehour, minute |-> i.eminute, second |-> i.esecond]
            /\ r.StartTime = <<i.year, i.month, i.day, i.hour, i.minute, i.second>>
            /\ r.EndTime = <<i.year, i.month, i.day, i.ehour, i.eminute, i.esecond>>
            /\ r.Instrument = matchdict.Instrument[1]
            /\ r.Phsyobs = matchdict.Physobs[1]
            /\ r.Source = matchdict.Source[1]
            /\ r.Provider = matchdict.Provider[1]

C6_Witness ==
    /\ pc = "done"
    /\ \E p \in 1..Len(metalist) :
        /\ origin[p].level = "2"
        /\ metalist[p].Time.start.hour = 23 /\ metalist[p].Time.end.hour = 0
        /\ metalist[p].Source = "GOES" /\ metalist[p].Provider = "NOAA"

\* C7: level '1b' binds the level-1b skeleton and grammar with satellite number,
\* wavelength and element code, 'he' exactly for 304 and 'fe' otherwise; level
\* '2' binds the level-2 skeleton and grammar with satellite number and
\* wavelength only; no scrape is ever bound for any other level.
C7_BranchRule ==
    \A k \in 1..Len(scraped) :
        LET c == scraped[k]
            u == c.urlpattern
        IN  /\ Supported(c.level)
            /\ u.goes = c.satno
            /\ ParseInt(u.wave) = c.wave
            /\ c.level = "1b" =>
                /\ c.pattern = "pattern1b"
                /\ u.product = "suvi-l1b-"
                /\ (u.elem = "he") = (c.wave = 304)
                /\ (u.elem = "fe") = (c.wave # 304)
            /\ c.level = "2" =>
                /\ c.pattern = "pattern2"
                /\ u.product = "suvi-l2-ci"
                /\ u.elem = ""
                /\ ParseInt(u.filewave) = c.wave
                /\ u.filesat = c.satno

C7_Witness ==
    \E a, b, c \in 1..Len(scraped) :
        /\ scraped[a].level = "1b" /\ scraped[a].wave = 304
        /\ scraped[b].level = "1b" /\ scraped[b].wave = 284
        /\ scraped[c].level = "2" /\ scraped[c].wave = 304

\* w lies between the two ends of the requested range, ends included
Inside(req_wave, w) ==
    LET a == ToAngstrom(req_wave.min)
        b == ToAngstrom(req_wave.max)
    IN  \/ RatLeq(a, <<w, 1>>) /\ RatLeq(<<w, 1>>, b)
        \/ RatLeq(b, <<w, 1>>) /\ RatLeq(<<w, 1>>, a)

\* C8: with a wavelength range requested, the wavelengths search runs over are
\* exactly the supported values inside the range expressed in angstrom, both
\* ends included, each once.
C8_Containment ==
    (pc # "idle" /\ matchdict.Wavelength # NoWavelength) =>
        /\ Range(all_waves) =
              { w \in Range(supported_waves) : Inside(matchdict.Wavelength, w) }
        /\ \A a, b \in 1..Len(all_waves) : a < b => all_waves[a] < all_waves[b]

C8_Witness ==
    /\ pc = "done"
    /\ matchdict.Wavelength # NoWavelength
    /\ matchdict.Wavelength.min.unit = "nm"
    /\ all_waves = <<171, 195, 284>>
    /\ Len(scraped) >= 3

\* position of a wavelength among the supported values
Rank(w) == CHOOSE k \in 1..Len(supported_waves) : supported_waves[k] = w

\* C9: in the returned list the combinations appear in nested-loop order
\* (satellite in request order, then level, then wavelength in supported-value
\* order), the records of one combination are contiguous, in calendar order of
\* their units and, within a unit, in the order the scraper yielded them.
C9_Ordering ==
    pc = "done" =>
        /\ Len(origin) = Len(response.records)
        /\ \A p \in 1..Len(origin) :
            /\ origin[p].satno = matchdict.SatelliteNumber[origin[p].si]
            /\ origin[p].level = matchdict.Level[origin[p].li]
            /\ response.records[p] = post_search_hook(origin[p].raw, matchdict)
        /\ \A p, q \in 1..Len(origin) : p < q =>
            LET a == origin[p]
                b == origin[q]
            IN  \/ a.si < b.si
                \/ a.si = b.si /\ a.li < b.li
                \/ a.si = b.si /\ a.li = b.li /\ Rank(a.wave) < Rank(b.wave)
                \/ /\ a.si = b.si /\ a.li = b.li /\ a.wave = b.wave
                   /\ \/ a.unit < b.unit
                      \/ a.unit = b.unit /\ a.k < b.k

C9_Witness ==
    /\ pc = "done" /\ Len(response.records) = 2
    /\ matchdict.SatelliteNumber = <<Str(17), Str(16)>>
    /\ response.records[1].SatelliteNumber = 17
    /\ response.records[2].SatelliteNumber = 16
    /\ origin[1].entry > origin[2].entry

\* C10: every returned record whose file encodes an end instant not earlier
\* than its start instant has start <= end.
C10_StartNotAfterEnd ==
    pc = "done" =>
        \A p \in 1..Len(response.records) :
            LET url == Archive[origin[p].entry]
            IN  NotAfter(url.s, url.e) =>
                    NotAfter(response.records[p].Time.start, response.records[p].Time.end)

====
